---- MODULE Spec2Model ----
(***************************************************************************)
(* A model of humann2/tools/infer_taxonomy.py: the tree of life, the       *)
(* taxonomy map builder, the map refinement, tax_connect, the table        *)
(* reindexer/aggregator and the reporter.                                  *)
(*                                                                         *)
(* Representation of Python strings.  A string is a sequence of atoms; an  *)
(* atom is a piece of text that no operation of the program ever cuts.     *)
(* The delimiters ("|", ": ", "."), the rank prefixes ("g__", "f__", ...)  *)
(* and the tag "UniRef" are atoms of their own, so that str.split, the     *)
(* substring tests ("g__" in s, "UniRef" in k), str.replace and string     *)
(* concatenation are computed on the text and not assumed.                 *)
(* "UniRef50_A|g__G1.s__S1" is <<"UniRef","50_A","|","g__","G1",".",       *)
(* "s__","S1">>.  Python's None is the reserved string None.               *)
(***************************************************************************)
EXTENDS Integers, Sequences, FiniteSets, TLC

VARIABLES
    pc,           \* position of the run
    features,     \* tbl.rowheads of the input table (list of row keys)
    in_data,      \* tbl.data of the input table (list of numeric rows)
    target_rank,  \* args.level
    mode,         \* args.mode
    threshold,    \* args.threshold, a rational [num, den]
    nodes,        \* tol.nodes : name -> Taxon
    taxmap,       \* the taxonomy map
    tol_mode,     \* build_taxmap's flag
    lca_mode,     \* build_taxmap's flag
    row,          \* build_taxmap's loop variable: the row just read
    last_marker,  \* the marker row most recently read from the data file
    i,            \* main's loop variable over tbl.rowheads
    index,        \* main's multimap: new row key -> list of source indices
    rowheads2,    \* the rebuilt tbl.rowheads
    data2,        \* the rebuilt tbl.data
    output,       \* what tbl.write has written
    success,      \* reporter's counter
    total         \* reporter's counter

vars == <<pc, features, in_data, target_rank, mode, threshold, nodes, taxmap,
          tol_mode, lca_mode, row, last_marker, i, index, rowheads2, data2,
          output, success, total>>

---------------------------------------------------------------------------
(* Bounds of the model *)

\* the largest number of rows of an input table
MaxRows == 3

---------------------------------------------------------------------------
(* Constants of the program *)

None == <<"<None>">>

c_root == <<"Root">>
c_levels == <<c_root, <<"Kingdom">>, <<"Phylum">>, <<"Class">>, <<"Order">>,
              <<"Family">>, <<"Genus">>>>
c_tmode == "totals"
c_umode == "unclassified"
c_smode == "stratified"
c_tol_header == <<"# TOL">>
c_lca_header == <<"# LCA">>
c_unclassified == <<"unclassified">>

\* util's delimiters and the sentinel feature
c_strat_delim == "|"
c_taxon_delim == "."
c_name_delim == ": "
c_unmapped == <<"UNMAPPED">>

---------------------------------------------------------------------------
(* Python's string operations on sequences of atoms *)

\* s.split( d ): the pieces of s between the occurrences of the atom d
RECURSIVE split(_, _)
split(s, d) ==
    IF \A k \in 1..Len(s) : s[k] # d
    THEN <<s>>
    ELSE LET k == CHOOSE k \in 1..Len(s) :
                      s[k] = d /\ \A j \in 1..(k - 1) : s[j] # d
         IN  <<SubSeq(s, 1, k - 1)>> \o split(SubSeq(s, k + 1, Len(s)), d)

\* sub in s, for an atom sub
contains(s, sub) == \E k \in 1..Len(s) : s[k] = sub

\* s.replace( old, "" ), for an atom old
RECURSIVE remove(_, _)
remove(s, old) ==
    IF s = <<>> THEN <<>>
    ELSE IF Head(s) = old THEN remove(Tail(s), old)
    ELSE <<Head(s)>> \o remove(Tail(s), old)

\* rank.lower()[0] + "__" : the rank prefix atom of a level name
rank_prefix(rank) ==
    CASE rank = <<"Root">>    -> "r__"
      [] rank = <<"Kingdom">> -> "k__"
      [] rank = <<"Phylum">>  -> "p__"
      [] rank = <<"Class">>   -> "c__"
      [] rank = <<"Order">>   -> "o__"
      [] rank = <<"Family">>  -> "f__"
      [] rank = <<"Genus">>   -> "g__"

\* dict.get( key, default )
dict_get(d, key, default) == IF key \in DOMAIN d THEN d[key] ELSE default

\* d[key] = value
dict_set(d, key, value) ==
    [k \in DOMAIN d \cup {key} |-> IF k = key THEN value ELSE d[k]]

---------------------------------------------------------------------------
(* util.fsplit and util.fjoin *)

fsplit(feature) ==
    LET items  == split(feature, c_strat_delim)
        items2 == split(items[1], c_name_delim)
    IN  [feature |-> items2[1],
         name    |-> IF Len(items2) = 1 THEN None ELSE items2[2],
         stratum |-> IF Len(items) = 1 THEN None ELSE items[2]]

fjoin(feature, name, stratum) ==
    LET f1 == IF name # None THEN feature \o <<c_name_delim>> \o name
              ELSE feature
    IN  IF stratum # None THEN f1 \o <<c_strat_delim>> \o stratum ELSE f1

---------------------------------------------------------------------------
(* Taxon and TreeOfLife *)

Taxon(name, rank, parent_name) ==
    [name |-> name, rank |-> rank, parent_name |-> parent_name]

root == Taxon(c_root, c_root, None)

\* TreeOfLife.__init__ : the nodes of a new tree
new_nodes == [n \in {root.name} |-> root]

\* TreeOfLife.attach
attach(nodes_, node) ==
    IF node.name \notin DOMAIN nodes_
    THEN dict_set(nodes_, node.name, node)
    ELSE nodes_

\* The while loop of get_lineage.  A walk of more iterations than the tree
\* has nodes has met a node twice and never ends: halts is FALSE then.
RECURSIVE lineage_loop(_, _, _, _)
lineage_loop(nodes_, name, lineage, fuel) ==
    IF name \in DOMAIN nodes_ /\ name # root.name
    THEN IF fuel = 0
         THEN [halts |-> FALSE, lineage |-> lineage]
         ELSE LET node == nodes_[name]
              IN  lineage_loop(nodes_, node.parent_name,
                               Append(lineage, <<node.rank, node.name>>),
                               fuel - 1)
    ELSE [halts |-> TRUE, lineage |-> Append(lineage, <<root.rank, root.name>>)]

\* a bug: the root pair is not appended
get_lineage_noroot(nodes_, name) ==
    LET r == lineage_loop(nodes_, name, <<>>, Cardinality(DOMAIN nodes_))
    IN  [r EXCEPT !.lineage = SubSeq(r.lineage, 1, Len(r.lineage) - 1)]

\* TreeOfLife.get_lineage
get_lineage(nodes_, name) ==
    lineage_loop(nodes_, name, <<>>, Cardinality(DOMAIN nodes_))

---------------------------------------------------------------------------
(* build_taxmap *)

\* the restricted UniRef id set
unirefs(features_) ==
    LET a == {split(features_[k], c_strat_delim)[1] : k \in 1..Len(features_)}
        b == {split(k, c_name_delim)[1] : k \in a}
    IN  {k \in b : contains(k, "UniRef")}

\* for rank, name in lineage: if rank == target_rank: ...; break
\* the index of the entry taken, 0 when the loop ends without a match
first_match(lineage, rank) ==
    IF \E k \in 1..Len(lineage) : lineage[k][1] = rank
    THEN CHOOSE k \in 1..Len(lineage) :
             lineage[k][1] = rank /\ \A j \in 1..(k - 1) : lineage[j][1] # rank
    ELSE 0

\* taxmap after the lineage scan for key (both loops share it)
scan_into(taxmap_, key, lineage, rank) ==
    LET k == first_match(lineage, rank)
    IN  IF k = 0 THEN taxmap_
        ELSE dict_set(taxmap_, key, <<rank_prefix(lineage[k][1])>> \o lineage[k][2])

\* a bug: the "# LCA" marker does not switch tree-of-life parsing off
read_marker_keep_tol(r, tol_mode_, lca_mode_) ==
    IF r[1] = c_tol_header THEN [tol_mode |-> TRUE, lca_mode |-> lca_mode_]
    ELSE IF r[1] = c_lca_header THEN [tol_mode |-> tol_mode_, lca_mode |-> TRUE]
    ELSE [tol_mode |-> tol_mode_, lca_mode |-> lca_mode_]

\* the two marker tests of the loop body: the flags after row r
read_marker(r, tol_mode_, lca_mode_) ==
    IF r[1] = c_tol_header THEN [tol_mode |-> TRUE, lca_mode |-> lca_mode_]
    ELSE IF r[1] = c_lca_header THEN [tol_mode |-> FALSE, lca_mode |-> TRUE]
    ELSE [tol_mode |-> tol_mode_, lca_mode |-> lca_mode_]

is_marker(r) == r[1] = c_tol_header \/ r[1] = c_lca_header

\* a bug: the UniRef id is not tested against the restricted set
lca_row_unrestricted(taxmap_, nodes_, features_, r, rank) ==
    scan_into(taxmap_, r[1], get_lineage(nodes_, r[2]).lineage, rank)

\* the LCA branch of the loop body, for a row of two fields: taxmap after it
lca_row(taxmap_, nodes_, features_, r, rank) ==
    IF r[1] \in unirefs(features_)
    THEN scan_into(taxmap_, r[1], get_lineage(nodes_, r[2]).lineage, rank)
    ELSE taxmap_

\* whether the LCA branch returns (its lineage walk ends)
lca_row_halts(nodes_, features_, r) ==
    r[1] \in unirefs(features_) => get_lineage(nodes_, r[2]).halts

\* a bug: the whole stratum is stored, not its genus part
augment_one_whole(taxmap_, nodes_, rowhead, rank) ==
    LET stratum == fsplit(rowhead).stratum
    IN  IF stratum # None /\ contains(stratum, "g__")
        THEN IF rank = <<"Genus">>
             THEN dict_set(taxmap_, stratum, stratum)
             ELSE scan_into(taxmap_, stratum,
                      get_lineage(nodes_,
                          remove(split(stratum, c_taxon_delim)[1], "g__")).lineage,
                      rank)
        ELSE taxmap_

\* the body of the augmenting loop: taxmap after one feature
augment_one(taxmap_, nodes_, rowhead, rank) ==
    LET stratum == fsplit(rowhead).stratum
        genus   == split(stratum, c_taxon_delim)[1]
    IN  IF stratum # None /\ contains(stratum, "g__")
        THEN IF rank = <<"Genus">>
             THEN dict_set(taxmap_, stratum, genus)
             ELSE scan_into(taxmap_, stratum,
                            get_lineage(nodes_, remove(genus, "g__")).lineage,
                            rank)
        ELSE taxmap_

\* whether the body of the augmenting loop returns for this feature
augment_one_halts(nodes_, rowhead, rank) ==
    LET stratum == fsplit(rowhead).stratum
        genus   == split(stratum, c_taxon_delim)[1]
    IN  (stratum # None /\ contains(stratum, "g__") /\ rank # <<"Genus">>)
            => get_lineage(nodes_, remove(genus, "g__")).halts

\* the augmenting loop over features[k..]
RECURSIVE augment(_, _, _, _, _)
augment(taxmap_, nodes_, features_, k, rank) ==
    IF k > Len(features_) THEN taxmap_
    ELSE augment(augment_one(taxmap_, nodes_, features_[k], rank),
                 nodes_, features_, k + 1, rank)

---------------------------------------------------------------------------
(* The inputs of the model *)

U1 == <<"UniRef", "50_A">>

\* the row keys input tables are made of
RowHeadUniverse ==
    << U1,
       U1 \o <<"|">> \o c_unclassified,
       U1 \o <<"|", "g__", "G1">>,
       U1 \o <<"|", "g__", "G1", ".", "s__", "S1">>,
       U1 \o <<"|", "g__", "G2">>,
       U1 \o <<": ", "nameA", "|">> \o c_unclassified,
       c_unmapped,
       <<"K00001">> >>

\* the elements of a set of indices, in increasing order
RECURSIVE Sorted(_)
Sorted(S) ==
    IF S = {} THEN <<>>
    ELSE LET m == CHOOSE m \in S : \A n \in S : m <= n
         IN  <<m>> \o Sorted(S \ {m})

\* the row key lists of the input tables: at most MaxRows distinct keys
InputRowHeads ==
    { [k \in 1..Cardinality(S) |-> RowHeadUniverse[Sorted(S)[k]]] :
        S \in {S \in SUBSET (1..Len(RowHeadUniverse)) : Cardinality(S) <= MaxRows} }

\* args.level: the root, the default and the finest of c_levels
TargetRanks == {c_levels[1], c_levels[6], c_levels[7]}

\* rows of the data file: name, rank, parent_name
TolRows ==
    { << <<"G1">>, <<"Genus">>,  <<"F1">> >>,
      << <<"G1">>, <<"Family">>, <<"F1">> >>,
      << <<"G1">>, <<"Genus">>,  c_root >>,
      << <<"F1">>, <<"Family">>, c_root >>,
      << <<"F1">>, <<"Family">>, <<"G1">> >>,
      << c_root,   <<"Kingdom">>, <<"F1">> >> }

\* rows of the data file: uniref_id, lca_taxon_name
LcaRows ==
    { << U1, <<"G1">> >>,
      << U1, <<"F1">> >>,
      << U1, <<"Z9">> >>,
      << <<"UniRef", "50_B">>, <<"G1">> >>,
      << <<"K00001">>, <<"G1">> >> }

FileRows == {<<c_tol_header>>, <<c_lca_header>>} \cup TolRows \cup LcaRows

EmptyDict == [k \in {} |-> <<>>]

\* the output before tbl.write
NotWritten == [written |-> FALSE, rowheads |-> <<>>, data |-> <<>>]

---------------------------------------------------------------------------
(* SpecBuild: build_taxmap over any stream of rows *)

InitBuild ==
    /\ pc = "stream"
    /\ features \in InputRowHeads
    /\ target_rank \in TargetRanks
    /\ nodes = new_nodes
    /\ taxmap = EmptyDict
    /\ tol_mode = FALSE
    /\ lca_mode = FALSE
    /\ row = <<None>>
    /\ last_marker = None
    /\ in_data = <<>>
    /\ mode = c_tmode
    /\ threshold = [num |-> 0, den |-> 1]
    /\ i = 0
    /\ index = EmptyDict
    /\ rowheads2 = <<>>
    /\ data2 = <<>>
    /\ output = NotWritten
    /\ success = 0
    /\ total = 0

\* one iteration of "for row in csv.reader( fh, csv.excel_tab )"
ReadRow(r) ==
    /\ pc = "stream"
    /\ row' = r
    /\ tol_mode' = read_marker(r, tol_mode, lca_mode).tol_mode
    /\ lca_mode' = read_marker(r, tol_mode, lca_mode).lca_mode
    /\ last_marker' = IF is_marker(r) THEN r[1] ELSE last_marker
    /\ IF is_marker(r)
       THEN UNCHANGED <<pc, nodes, taxmap>>
       ELSE IF tol_mode
       THEN IF Len(r) = 3
            THEN /\ nodes' = attach(nodes, Taxon(r[1], r[2], r[3]))
                 /\ UNCHANGED <<pc, taxmap>>
            ELSE /\ pc' = "error"
                 /\ UNCHANGED <<nodes, taxmap>>
       ELSE IF lca_mode
       THEN IF Len(r) = 2
            THEN IF lca_row_halts(nodes, features, r)
                 THEN /\ taxmap' = lca_row(taxmap, nodes, features, r, target_rank)
                      /\ UNCHANGED <<pc, nodes>>
                 ELSE /\ pc' = "hang"
                      /\ UNCHANGED <<nodes, taxmap>>
            ELSE /\ pc' = "error"
                 /\ UNCHANGED <<nodes, taxmap>>
       ELSE UNCHANGED <<pc, nodes, taxmap>>
    /\ UNCHANGED <<features, in_data, target_rank, mode, threshold, i, index,
                   rowheads2, data2, output, success, total>>

\* the data file ends
EndOfFile ==
    /\ pc = "stream"
    /\ pc' = "augment"
    /\ UNCHANGED <<features, in_data, target_rank, mode, threshold, nodes,
                   taxmap, tol_mode, lca_mode, row, last_marker, i, index,
                   rowheads2, data2, output, success, total>>

\* the augmenting loop and the return
Augment ==
    /\ pc = "augment"
    /\ IF \A k \in 1..Len(features) :
              augment_one_halts(nodes, features[k], target_rank)
       THEN /\ taxmap' = augment(taxmap, nodes, features, 1, target_rank)
            /\ pc' = "built"
       ELSE /\ pc' = "hang"
            /\ UNCHANGED taxmap
    /\ UNCHANGED <<features, in_data, target_rank, mode, threshold, nodes,
                   tol_mode, lca_mode, row, last_marker, i, index,
                   rowheads2, data2, output, success, total>>

NextBuild ==
    \/ \E r \in FileRows : ReadRow(r)
    \/ EndOfFile
    \/ Augment

SpecBuild == InitBuild /\ [][NextBuild]_vars

---------------------------------------------------------------------------
(* Properties of the tree of life and of build_taxmap *)

\* the names lineages are asked for
TaxonNames == {<<"G1">>, <<"F1">>, <<"Z9">>, c_root}

\* the parents of the names of S that are nodes other than the root
ParentsOf(S) ==
    {nodes[n].parent_name : n \in {m \in S : m \in DOMAIN nodes /\ m # c_root}}

\* the names met after 1..k parent steps from the names of S
RECURSIVE After(_, _)
After(S, k) ==
    IF k = 0 THEN {} ELSE ParentsOf(S) \cup After(ParentsOf(S), k - 1)

Ancestors(n) == After({n}, Cardinality(DOMAIN nodes) + 1)

\* the parent chain of T never comes back to a name it has left
AcyclicChain(T) == \A n \in {T} \cup Ancestors(T) : n \notin Ancestors(n)

\* L is the parent chain of T, leaf to root, each node once, then the root pair
IsChainOf(L, T) ==
    LET m == Len(L) - 1
        walked(n) == n \in DOMAIN nodes /\ n # c_root
    IN  /\ Len(L) >= 1
        /\ L[Len(L)] = <<c_root, c_root>>
        /\ m >= 1 => L[1][2] = T
        /\ \A k \in 1..m :
              /\ walked(L[k][2])
              /\ L[k][1] = nodes[L[k][2]].rank
        /\ \A k \in 1..(m - 1) : L[k + 1][2] = nodes[L[k][2]].parent_name
        /\ \A j, k \in 1..m : j # k => L[j][2] # L[k][2]
        /\ IF m = 0 THEN ~walked(T)
           ELSE ~walked(nodes[L[m][2]].parent_name)

\* C5: in every tree the attach calls can build, get_lineage of a name with
\* an acyclic parent chain returns, and returns the chain's [rank, name]
\* pairs leaf to root, each once, followed by the root pair.
Thm_C5_LineageIsChain ==
    \A T \in TaxonNames :
        AcyclicChain(T) =>
            /\ get_lineage(nodes, T).halts
            /\ IsChainOf(get_lineage(nodes, T).lineage, T)

\* a tree with a chain of two nodes under the root has been attached and read
Wit_C5_TwoNodeChain ==
    /\ <<"G1">> \in DOMAIN nodes
    /\ <<"F1">> \in DOMAIN nodes
    /\ nodes[<<"G1">>].parent_name = <<"F1">>
    /\ nodes[<<"F1">>].parent_name = c_root
    /\ Len(get_lineage(nodes, <<"G1">>).lineage) = 3
    /\ U1 \in DOMAIN taxmap

\* u is the text before the first stratum or name delimiter of a row key,
\* and carries the UniRef tag
InRestrictedSet(u) ==
    /\ \E k \in 1..Len(u) : u[k] = "UniRef"
    /\ \A k \in 1..Len(u) : u[k] \notin {c_strat_delim, c_name_delim}
    /\ \E k \in 1..Len(features) :
          /\ Len(features[k]) >= Len(u)
          /\ SubSeq(features[k], 1, Len(u)) = u
          /\ Len(features[k]) > Len(u) =>
                features[k][Len(u) + 1] \in {c_strat_delim, c_name_delim}

\* the label of the entry of rank target_rank closest to the leaf on lin
ClosestLabel(lin) ==
    LET at == {k \in 1..Len(lin) : lin[k][1] = target_rank}
        k  == CHOOSE k \in at : \A j \in at : k <= j
    IN  <<rank_prefix(target_rank)>> \o lin[k][2]

HasRank(lin) == \E k \in 1..Len(lin) : lin[k][1] = target_rank

\* keys that are no genus stratum: the UniRef-level keys of the map
UniKeys(d) == {k \in DOMAIN d : ~contains(k, "g__")}

\* a step that reads an LCA row of two fields and returns
LcaStep ==
    /\ pc = "stream" /\ pc' = "stream"
    /\ last_marker = c_lca_header
    /\ ~is_marker(row') /\ Len(row') = 2

C6_Keys ==
    \A u \in UniKeys(taxmap) :
        /\ InRestrictedSet(u)
        /\ taxmap[u][1] = rank_prefix(target_rank)

C6_Step ==
    /\ LcaStep =>
          LET u   == row'[1]
              lin == get_lineage(nodes, row'[2]).lineage
          IN  IF InRestrictedSet(u) /\ HasRank(lin)
              THEN /\ u \in DOMAIN taxmap'
                   /\ taxmap'[u] = ClosestLabel(lin)
                   /\ \A k \in DOMAIN taxmap' \ {u} :
                         k \in DOMAIN taxmap /\ taxmap'[k] = taxmap[k]
              ELSE taxmap' = taxmap
    /\ ~LcaStep =>
          /\ UniKeys(taxmap') = UniKeys(taxmap)
          /\ \A u \in UniKeys(taxmap) : taxmap'[u] = taxmap[u]

\* C6: every UniRef key of the map is in the restricted id set of the table
\* and carries the target rank's prefix; a key is set only by an LCA row for
\* it, to the prefix and the name of the lineage entry of the target rank
\* closest to the leaf; an LCA row whose lineage has no entry of the target
\* rank, or whose id is outside the restricted set, leaves the map as it is.
Thm_C6_MapFromLca == [](C6_Keys) /\ [][C6_Step]_vars

\* the closest of two Family entries has been stored for a UniRef id
Wit_C6_ClosestOfTwo ==
    /\ pc = "built"
    /\ U1 \in DOMAIN taxmap
    /\ taxmap[U1] = <<"f__", "G1">>
    /\ <<"G1">> \in DOMAIN nodes /\ nodes[<<"G1">>].parent_name = <<"F1">>
    /\ <<"F1">> \in DOMAIN nodes /\ nodes[<<"F1">>].rank = <<"Family">>

\* what attach of the row read leaves in the tree
AttachedRow ==
    IF row'[1] \in DOMAIN nodes THEN nodes' = nodes
    ELSE /\ DOMAIN nodes' = DOMAIN nodes \cup {row'[1]}
         /\ nodes'[row'[1]] =
                [name |-> row'[1], rank |-> row'[2], parent_name |-> row'[3]]
         /\ \A n \in DOMAIN nodes : nodes'[n] = nodes[n]

C7_Step ==
    (pc = "stream" /\ pc' # "augment" /\ ~is_marker(row')) =>
        /\ last_marker = c_tol_header =>
              /\ taxmap' = taxmap
              /\ IF Len(row') = 3 THEN pc' = "stream" /\ AttachedRow
                 ELSE pc' = "error" /\ nodes' = nodes
        /\ last_marker = c_lca_header =>
              /\ nodes' = nodes
              /\ IF Len(row') = 2
                 THEN /\ pc' \in {"stream", "hang"}
                      /\ \A k \in DOMAIN taxmap' :
                            k # row'[1] => k \in DOMAIN taxmap /\ taxmap'[k] = taxmap[k]
                 ELSE pc' = "error" /\ taxmap' = taxmap
        /\ last_marker = None =>
              pc' = "stream" /\ nodes' = nodes /\ taxmap' = taxmap

\* C7: a data row is handled by the marker read last: after "# TOL" it is
\* unpacked as name, rank, parent and attached (also when "# LCA" was read
\* before that "# TOL"), after "# LCA" it is unpacked as id, taxon and only
\* the map may change, and before any marker neither the tree nor the map
\* changes.
Thm_C7_LastMarkerDecides == [][C7_Step]_vars

\* a row was attached after "# TOL" was read again behind "# LCA"
Wit_C7_TolAfterLca ==
    /\ pc = "stream"
    /\ lca_mode /\ last_marker = c_tol_header
    /\ Len(row) = 3 /\ row[1] \in DOMAIN nodes /\ row[1] # c_root
    /\ nodes[row[1]].rank = row[2] /\ nodes[row[1]].parent_name = row[3]
    /\ U1 \in DOMAIN taxmap

\* the strata of the table that contain "g__"
GenusStrata ==
    {fsplit(features[k]).stratum : k \in
        {k \in 1..Len(features) :
            /\ fsplit(features[k]).stratum # None
            /\ contains(fsplit(features[k]).stratum, "g__")}}

\* the text of s before its first taxon delimiter
FirstPart(s) ==
    LET at == {k \in 1..Len(s) : s[k] = c_taxon_delim}
    IN  IF at = {} THEN s
        ELSE SubSeq(s, 1, (CHOOSE k \in at : \A j \in at : k <= j) - 1)

\* C8 as claimed: with target rank Genus every stratum containing "g__" is
\* mapped to itself, multi-part strata included.
Orig_C8_GenusIdentity ==
    (pc = "built" /\ target_rank = <<"Genus">>) =>
        \A s \in GenusStrata : s \in DOMAIN taxmap /\ taxmap[s] = s

\* C8 amended: with target rank Genus every stratum containing "g__" is
\* mapped to its first part, the text before the first taxon delimiter; it
\* is mapped to itself exactly when it has one part only.
Thm_C8_GenusFirstPart ==
    (pc = "built" /\ target_rank = <<"Genus">>) =>
        \A s \in GenusStrata :
            /\ s \in DOMAIN taxmap
            /\ taxmap[s] = FirstPart(s)
            /\ (taxmap[s] = s) <=> ~contains(s, c_taxon_delim)

\* a genus.species stratum and a genus stratum have both been mapped
Wit_C8_MultiPart ==
    /\ pc = "built" /\ target_rank = <<"Genus">>
    /\ \E s \in GenusStrata : contains(s, c_taxon_delim) /\ taxmap[s] # s
    /\ \E s \in GenusStrata : ~contains(s, c_taxon_delim) /\ taxmap[s] = s

---------------------------------------------------------------------------
(* main: refinement, tax_connect, reindexing, rebuilding, writing, report *)

\* sum( counts.values( ) ) over the labels of S
RECURSIVE sum_counts(_, _)
sum_counts(counts, S) ==
    IF S = {} THEN 0
    ELSE LET new == CHOOSE new \in S : TRUE
         IN  counts[new] + sum_counts(counts, S \ {new})

\* a bug: the comparison with the threshold is inverted
refine_inverted(taxmap_, threshold_) ==
    LET labels  == {taxmap_[old] : old \in DOMAIN taxmap_}
        counts  == [new \in labels |->
                       Cardinality({old \in DOMAIN taxmap_ : taxmap_[old] = new})]
        total_  == sum_counts(counts, labels)
        keep    == {old \in DOMAIN taxmap_ :
                       counts[taxmap_[old]] * threshold_.den
                           <= threshold_.num * total_}
    IN  [old \in keep |-> taxmap_[old]]

\* "refine the taxmap": count[new] = counts[new] / total is compared with the
\* threshold num/den as counts[new] * den >= num * total (total, den > 0)
refine(taxmap_, threshold_) ==
    LET labels  == {taxmap_[old] : old \in DOMAIN taxmap_}
        counts  == [new \in labels |->
                       Cardinality({old \in DOMAIN taxmap_ : taxmap_[old] = new})]
        total_  == sum_counts(counts, labels)
        keep    == {old \in DOMAIN taxmap_ :
                       counts[taxmap_[old]] * threshold_.den
                           >= threshold_.num * total_}
    IN  [old \in keep |-> taxmap_[old]]

\* a bug: the stratum is looked up also when it is absent or "unclassified"
tax_connect_stratum_only(feature, taxmap_) ==
    LET f == fsplit(feature)
    IN  fjoin(f.feature, f.name, dict_get(taxmap_, f.stratum, c_unclassified))

tax_connect(feature, taxmap_) ==
    LET f == fsplit(feature)
        stratum2 == IF f.stratum = None \/ f.stratum = c_unclassified
                    THEN dict_get(taxmap_, f.feature, c_unclassified)
                    ELSE dict_get(taxmap_, f.stratum, c_unclassified)
    IN  fjoin(f.feature, f.name, stratum2)

\* a bug: the list of a key is replaced, not extended
setdefault_replace(index_, key, i_) == dict_set(index_, key, <<i_>>)

\* index.setdefault( key, [] ).append( i )
setdefault_append(index_, key, i_) ==
    dict_set(index_, key, Append(dict_get(index_, key, <<>>), i_))

\* a bug: in unclassified mode the row of the total is not made
index_row_no_total(index_, i_, rowhead, taxmap_, mode_) ==
    LET f == fsplit(rowhead)
        new_rowhead == tax_connect(rowhead, taxmap_)
        index1 == IF f.feature = c_unmapped
                  THEN setdefault_append(index_, rowhead, i_)
                  ELSE index_
    IN  IF f.stratum = None /\ mode_ # c_umode
        THEN LET index2 == setdefault_append(index1, rowhead, i_)
             IN  IF mode_ = c_tmode
                 THEN setdefault_append(index2, new_rowhead, i_)
                 ELSE index2
        ELSE IF f.stratum = c_unclassified /\ mode_ = c_umode
        THEN setdefault_append(index1, new_rowhead, i_)
        ELSE IF f.stratum # None /\ mode_ = c_smode
        THEN setdefault_append(index1, new_rowhead, i_)
        ELSE index1

\* the body of the reindexing loop: index after row i_ (rows count from 1)
index_row(index_, i_, rowhead, taxmap_, mode_) ==
    LET f == fsplit(rowhead)
        new_rowhead == tax_connect(rowhead, taxmap_)
        index1 == IF f.feature = c_unmapped
                  THEN setdefault_append(index_, rowhead, i_)
                  ELSE index_
    IN  IF f.stratum = None /\ mode_ # c_umode
        THEN LET index2 == setdefault_append(index1, rowhead, i_)
             IN  IF mode_ = c_tmode
                 THEN setdefault_append(index2, new_rowhead, i_)
                 ELSE index2
        ELSE IF f.stratum = c_unclassified /\ mode_ = c_umode
        THEN setdefault_append(
                 setdefault_append(index1, fjoin(f.feature, f.name, None), i_),
                 new_rowhead, i_)
        ELSE IF f.stratum # None /\ mode_ = c_smode
        THEN setdefault_append(index1, new_rowhead, i_)
        ELSE index1

\* tbl.colheads of the input tables
colheads == <<"SampleA", "SampleB">>

\* the numeric rows of the input tables
RowVectors == {<<1, 0>>, <<2, 3>>}

\* [a + b for a, b in zip( newrow, oldrow )]
add_rows(newrow, oldrow) ==
    [k \in 1..(IF Len(newrow) <= Len(oldrow) THEN Len(newrow) ELSE Len(oldrow))
        |-> newrow[k] + oldrow[k]]

\* the inner loop of the rebuild: newrow after the rows ixs[k..]
RECURSIVE sum_rows(_, _, _, _)
sum_rows(data_, ixs, k, newrow) ==
    IF k > Len(ixs) THEN newrow
    ELSE sum_rows(data_, ixs, k + 1, add_rows(newrow, data_[ixs[k]]))

\* util.fsort: the keys in one fixed order
RECURSIVE fsort(_)
fsort(S) ==
    IF S = {} THEN <<>>
    ELSE LET x == CHOOSE x \in S : TRUE
         IN  <<x>> \o fsort(S \ {x})

\* a bug: every output row is counted as a stratification
report_total_all(rowheads_) == Len(rowheads_)

\* the reporter's total: the output rows with a stratum
report_total(rowheads_) ==
    Cardinality({k \in 1..Len(rowheads_) : fsplit(rowheads_[k]).stratum # None})

\* the reporter's success: those whose stratum is not "unclassified"
report_success(rowheads_) ==
    Cardinality({k \in 1..Len(rowheads_) :
                    /\ fsplit(rowheads_[k]).stratum # None
                    /\ fsplit(rowheads_[k]).stratum # c_unclassified})

---------------------------------------------------------------------------
(* SpecMain: main from the built taxonomy map on *)

FamilyLabels == {<<"f__", "FamX">>, <<"f__", "FamY">>}

\* the strata with "g__" of a list of row keys
genus_strata(features_) ==
    {fsplit(features_[k]).stratum : k \in
        {k \in 1..Len(features_) :
            /\ fsplit(features_[k]).stratum # None
            /\ contains(fsplit(features_[k]).stratum, "g__")}}

\* the maps build_taxmap can return for a table: UniRef ids and genus
\* strata of the table, each mapped to a label of the target rank
BuiltMaps(features_) ==
    UNION { [K -> FamilyLabels] :
              K \in SUBSET (unirefs(features_) \cup genus_strata(features_)) }

\* args.threshold
MainThresholds == {[num |-> 1, den |-> 1000], [num |-> 1, den |-> 2]}

InitMain ==
    /\ pc = "refine"
    /\ features \in InputRowHeads
    /\ in_data \in [1..Len(features) -> RowVectors]
    /\ target_rank = <<"Family">>
    /\ mode \in {c_tmode, c_umode, c_smode}
    /\ threshold \in MainThresholds
    /\ nodes = new_nodes
    /\ taxmap \in BuiltMaps(features)
    /\ tol_mode = FALSE
    /\ lca_mode = FALSE
    /\ row = <<None>>
    /\ last_marker = None
    /\ i = 1
    /\ index = EmptyDict
    /\ rowheads2 = <<>>
    /\ data2 = <<>>
    /\ output = NotWritten
    /\ success = 0
    /\ total = 0

\* "refine the taxmap"
Refine ==
    /\ pc = "refine"
    /\ taxmap' = refine(taxmap, threshold)
    /\ pc' = "reindex"
    /\ UNCHANGED <<features, in_data, target_rank, mode, threshold, nodes,
                   tol_mode, lca_mode, row, last_marker, i, index,
                   rowheads2, data2, output, success, total>>

\* one iteration of "for i, rowhead in enumerate( tbl.rowheads )"
ReindexRow ==
    /\ pc = "reindex"
    /\ i <= Len(features)
    /\ index' = index_row(index, i, features[i], taxmap, mode)
    /\ i' = i + 1
    /\ UNCHANGED <<pc, features, in_data, target_rank, mode, threshold, nodes,
                   taxmap, tol_mode, lca_mode, row, last_marker,
                   rowheads2, data2, output, success, total>>

\* "rebuild the table"
Rebuild ==
    /\ pc = "reindex"
    /\ i > Len(features)
    /\ rowheads2' = fsort(DOMAIN index)
    /\ data2' = [k \in 1..Cardinality(DOMAIN index) |->
                    sum_rows(in_data, index[fsort(DOMAIN index)[k]], 1,
                             [c \in 1..Len(colheads) |-> 0])]
    /\ pc' = "write"
    /\ UNCHANGED <<features, in_data, target_rank, mode, threshold, nodes,
                   taxmap, tol_mode, lca_mode, row, last_marker, i, index,
                   output, success, total>>

\* tbl.write( args.output, unfloat=True )
Write ==
    /\ pc = "write"
    /\ output' = [written |-> TRUE, rowheads |-> rowheads2, data |-> data2]
    /\ pc' = "report"
    /\ UNCHANGED <<features, in_data, target_rank, mode, threshold, nodes,
                   taxmap, tol_mode, lca_mode, row, last_marker, i, index,
                   rowheads2, data2, success, total>>

\* "report on performance": the counting loop and the summary line, whose
\* percentage raises ZeroDivisionError when total is 0
Report ==
    /\ pc = "report"
    /\ total' = report_total(rowheads2)
    /\ success' = report_success(rowheads2)
    /\ pc' = IF report_total(rowheads2) = 0 THEN "zero_division" ELSE "done"
    /\ UNCHANGED <<features, in_data, target_rank, mode, threshold, nodes,
                   taxmap, tol_mode, lca_mode, row, last_marker, i, index,
                   rowheads2, data2, output>>

NextMain ==
    \/ Refine
    \/ ReindexRow
    \/ Rebuild
    \/ Write
    \/ Report

SpecMain == InitMain /\ [][NextMain]_vars

---------------------------------------------------------------------------
(* Properties of the reindexer, the aggregator and the reporter *)

Rows == 1..Len(features)

\* the parts of input row k
F(k) == fsplit(features[k])

\* the output keys input row k was assigned to, and how often to each
KeysOf(k) ==
    {key \in DOMAIN index : \E p \in 1..Len(index[key]) : index[key][p] = k}

TimesIn(k, key) ==
    Cardinality({p \in 1..Len(index[key]) : index[key][p] = k})

HasOut(key) == \E p \in 1..Len(output.rowheads) : output.rowheads[p] = key

\* the numeric vector of the written row with this key
OutVec(key) ==
    output.data[CHOOSE p \in 1..Len(output.rowheads) : output.rowheads[p] = key]

\* the elementwise sum of the vectors vec[k], k in S
RECURSIVE SumOver(_, _)
SumOver(vec, S) ==
    IF S = {} THEN [c \in 1..Len(colheads) |-> 0]
    ELSE LET k == CHOOSE k \in S : TRUE
         IN  [c \in 1..Len(colheads) |-> vec[k][c] + SumOver(vec, S \ {k})[c]]

\* C1 as claimed: in every mode a row of the unmapped sentinel is written
\* under its own key with exactly its input vector.
Orig_C1_UnmappedVerbatim ==
    output.written =>
        \A k \in Rows :
            F(k).feature = c_unmapped =>
                /\ HasOut(features[k])
                /\ OutVec(features[k]) = in_data[k]

\* rows kF (un-stratified) and kG (same feature and name, a genus stratum)
\* whose feature and stratum the refined map sends to one label
C2Case(kF, kG) ==
    /\ mode = c_tmode
    /\ F(kF).stratum = None
    /\ F(kG).feature = F(kF).feature /\ F(kG).name = F(kF).name
    /\ F(kG).stratum # None /\ contains(F(kG).stratum, "g__")
    /\ F(kF).feature \in DOMAIN taxmap
    /\ F(kG).stratum \in DOMAIN taxmap
    /\ taxmap[F(kF).feature] = taxmap[F(kG).stratum]

C2Key(kF) == fjoin(F(kF).feature, F(kF).name, taxmap[F(kF).feature])

\* C2 as claimed: in totals mode the new row F|L is the sum of the
\* un-stratified row F and the genus-stratified row F|g__G.
Orig_C2_TotalsSumOfBoth ==
    output.written =>
        \A kF, kG \in Rows :
            C2Case(kF, kG) =>
                /\ HasOut(features[kF])
                /\ OutVec(features[kF]) = in_data[kF]
                /\ HasOut(C2Key(kF))
                /\ OutVec(C2Key(kF)) = add_rows(in_data[kF], in_data[kG])

\* C2 amended: in totals mode the output holds the row F unchanged and a new
\* row F|L that carries the values of the un-stratified row F alone; the
\* genus-stratified row F|g__G is assigned to no output key.
Thm_C2_TotalsUnstratifiedOnly ==
    output.written =>
        \A kF, kG \in Rows :
            C2Case(kF, kG) =>
                /\ HasOut(features[kF])
                /\ OutVec(features[kF]) = in_data[kF]
                /\ HasOut(C2Key(kF))
                /\ OutVec(C2Key(kF)) = in_data[kF]
                /\ KeysOf(kG) = {}

\* the table of the example has been rewritten
Wit_C2_BothMapped ==
    /\ output.written
    /\ \E kF, kG \in Rows : C2Case(kF, kG) /\ HasOut(C2Key(kF))

\* the rows F|unclassified that share feature and name with row k
SameUnclassified(k) ==
    {j \in Rows : /\ F(j).feature = F(k).feature
                  /\ F(j).name = F(k).name
                  /\ F(j).stratum = c_unclassified}

C3TotalKey(k) ==
    IF F(k).name = None THEN F(k).feature
    ELSE F(k).feature \o <<c_name_delim>> \o F(k).name

C3LabelKey(k) ==
    C3TotalKey(k) \o <<c_strat_delim>> \o
        (IF F(k).feature \in DOMAIN taxmap THEN taxmap[F(k).feature]
         ELSE c_unclassified)

\* C3: in unclassified mode a row F|unclassified of a feature other than the
\* sentinel is assigned once to the total key F and once to F|L, L the
\* refined map's label of F or "unclassified", and to nothing else; when no
\* other row shares them both written rows carry its values; every other
\* row of a feature other than the sentinel is assigned to no key.
Thm_C3_UnclassifiedSplit ==
    (output.written /\ mode = c_umode) =>
        \A k \in Rows :
            F(k).feature # c_unmapped =>
                IF F(k).stratum = c_unclassified
                THEN /\ KeysOf(k) = {C3TotalKey(k), C3LabelKey(k)}
                     /\ TimesIn(k, C3TotalKey(k)) = 1
                     /\ TimesIn(k, C3LabelKey(k)) = 1
                     /\ SameUnclassified(k) = {k} =>
                           /\ HasOut(C3TotalKey(k))
                           /\ OutVec(C3TotalKey(k)) = in_data[k]
                           /\ HasOut(C3LabelKey(k))
                           /\ OutVec(C3LabelKey(k)) = in_data[k]
                ELSE KeysOf(k) = {}

\* an unclassified row with a mapped feature was split beside a row that
\* went nowhere
Wit_C3_SplitWritten ==
    /\ output.written /\ mode = c_umode
    /\ \E k, j \in Rows :
          /\ F(k).stratum = c_unclassified
          /\ F(k).feature \in DOMAIN taxmap
          /\ HasOut(C3LabelKey(k))
          /\ F(j).stratum # c_unclassified /\ F(j).feature # c_unmapped
          /\ KeysOf(j) = {}

\* no written row key holds a stratum delimiter
NoStratifiedOut ==
    \A p \in 1..Len(rowheads2) : ~contains(rowheads2[p], c_strat_delim)

\* C9: the run ends in the division by zero exactly when the rewritten table
\* has no stratified row, and then the table has been written; a run that
\* ends well has counted at least one stratified row and success <= total.
Thm_C9_ReporterDivision ==
    /\ pc = "zero_division" =>
          /\ NoStratifiedOut
          /\ total = 0
          /\ output = [written |-> TRUE, rowheads |-> rowheads2, data |-> data2]
    /\ pc = "done" =>
          /\ ~NoStratifiedOut
          /\ output.written
          /\ total >= 1
          /\ success <= total

\* a table with rows was rewritten to one without strata and the report failed
Wit_C9_ZeroDivision ==
    /\ pc = "zero_division"
    /\ mode = c_smode
    /\ Len(features) > 0
    /\ Len(output.rowheads) > 0

\* the key tax_connect gives a stratified row
C10Key(k) ==
    C3TotalKey(k) \o <<c_strat_delim>> \o
        (LET key == IF F(k).stratum = c_unclassified THEN F(k).feature
                    ELSE F(k).stratum
         IN  IF key \in DOMAIN taxmap THEN taxmap[key] ELSE c_unclassified)

StratifiedIn(f) ==
    {k \in Rows : F(k).feature = f /\ F(k).stratum # None}

StratifiedOut(f) ==
    {p \in 1..Len(output.rowheads) :
        /\ fsplit(output.rowheads[p]).feature = f
        /\ fsplit(output.rowheads[p]).stratum # None}

\* C10: in stratified mode every row with a stratum, of a feature other than
\* the sentinel, is assigned once to its tax_connect key and to no other
\* key, and for each such feature the written stratified rows sum, column by
\* column, to the stratified input rows.
Thm_C10_StratifiedMass ==
    (output.written /\ mode = c_smode) =>
        /\ \A k \in Rows :
              (F(k).stratum # None /\ F(k).feature # c_unmapped) =>
                  /\ KeysOf(k) = {C10Key(k)}
                  /\ TimesIn(k, C10Key(k)) = 1
        /\ \A f \in {F(k).feature : k \in Rows} \ {c_unmapped} :
              SumOver(output.data, StratifiedOut(f))
                  = SumOver(in_data, StratifiedIn(f))

\* two strata of one feature collapsed onto one written row
Wit_C10_Collapsed ==
    /\ output.written /\ mode = c_smode
    /\ \E k, j \in Rows :
          /\ k # j
          /\ F(k).stratum # None /\ F(j).stratum # None
          /\ F(k).feature # c_unmapped
          /\ C10Key(k) = C10Key(j)
          /\ C10Key(k) \in DOMAIN index
          /\ OutVec(C10Key(k)) = add_rows(in_data[k], in_data[j])

---------------------------------------------------------------------------
(* SpecRefine: the refinement applied, and applied again *)

RefineKeys == {U1, <<"UniRef", "50_B">>, <<"g__", "G1">>, <<"g__", "G2">>}

RefineLabels == FamilyLabels \cup {<<"f__", "FamZ">>}

\* args.threshold
RefineThresholds ==
    {[num |-> 0, den |-> 1], [num |-> 1, den |-> 1000], [num |-> 1, den |-> 4],
     [num |-> 1, den |-> 3], [num |-> 1, den |-> 2], [num |-> 1, den |-> 1],
     [num |-> 2, den |-> 1]}

InitRefine ==
    /\ pc = "refine"
    /\ taxmap \in UNION {[K -> RefineLabels] : K \in SUBSET RefineKeys}
    /\ threshold \in RefineThresholds
    /\ features = <<>>
    /\ in_data = <<>>
    /\ target_rank = <<"Family">>
    /\ mode = c_tmode
    /\ nodes = new_nodes
    /\ tol_mode = FALSE
    /\ lca_mode = FALSE
    /\ row = <<None>>
    /\ last_marker = None
    /\ i = 1
    /\ index = EmptyDict
    /\ rowheads2 = <<>>
    /\ data2 = <<>>
    /\ output = NotWritten
    /\ success = 0
    /\ total = 0

\* the refinement applied to the refined map
RefineAgain ==
    /\ pc = "reindex"
    /\ taxmap' = refine(taxmap, threshold)
    /\ pc' = "refined_again"
    /\ UNCHANGED <<features, in_data, target_rank, mode, threshold, nodes,
                   tol_mode, lca_mode, row, last_marker, i, index,
                   rowheads2, data2, output, success, total>>

NextRefine ==
    \/ Refine
    \/ RefineAgain

SpecRefine == InitRefine /\ [][NextRefine]_vars

\* C4: the same threshold applied to the refined map removes no entry.
Thm_C4_RefineIdempotent ==
    [][(pc = "reindex" /\ pc' = "refined_again") => taxmap' = taxmap]_vars

\* a map of two entries under one label has been refined a second time
Wit_C4_RefinedTwice ==
    /\ pc = "refined_again"
    /\ threshold = [num |-> 1, den |-> 2]
    /\ Cardinality(DOMAIN taxmap) = 2
    /\ \E a, b \in DOMAIN taxmap : taxmap[a] = taxmap[b] /\ a # b

====
